---- MODULE Spec2Model ----
(***************************************************************************)
(* Model of the personal-finance data platform: the CSV extractor and      *)
(* normalizer (fndataops/ingest/scripts/extractors), the Airflow DAG that *)
(* sequences extract/load, anomaly detection and forecasting              *)
(* (fndataops/orchestration/dags/fin_dataops_dag.py) and the two serving  *)
(* endpoints that read the transaction count and acknowledge an anomaly.  *)
(*                                                                         *)
(* Text is a sequence of one-character strings, so that strip, the        *)
(* removal of '$' and ',' and float() act on characters; the hash input   *)
(* of generate_txn_id is the concatenation the f-string builds.  Amounts  *)
(* are integers: thousandths in a raw cell, cents once rounded.           *)
(***************************************************************************)
EXTENDS Integers, Sequences, FiniteSets, TLC

(* ------------------------------------------------------------------ *)
(* Text helpers                                                        *)
(* ------------------------------------------------------------------ *)

Digits == <<"0", "1", "2", "3", "4", "5", "6", "7", "8", "9">>

IsDigit(c) == \E i \in 1..10 : Digits[i] = c

DigitVal(c) == (CHOOSE i \in 1..10 : Digits[i] = c) - 1

IsSpace(c) == c \in {" ", "\t", "\n"}

\* ''.join(chars): the Python str a character sequence stands for
RECURSIVE Join(_)
Join(s) == IF s = <<>> THEN "" ELSE s[1] \o Join(Tail(s))

RECURSIVE LStrip(_)
LStrip(s) == IF s # <<>> /\ IsSpace(s[1]) THEN LStrip(Tail(s)) ELSE s

RECURSIVE RStrip(_)
RStrip(s) ==
    IF s # <<>> /\ IsSpace(s[Len(s)]) THEN RStrip(SubSeq(s, 1, Len(s) - 1)) ELSE s

\* str.strip()
Strip(s) == RStrip(LStrip(s))

\* str.replace(c, '') for a single character c
Remove(s, c) == SelectSeq(s, LAMBDA x : x # c)

\* '%0wd' % n for n >= 0
RECURSIVE ZeroPad(_, _)
ZeroPad(n, w) ==
    IF w <= 1 THEN ToString(n) ELSE ToString(n \div (10 ^ (w - 1))) \o ZeroPad(n % (10 ^ (w - 1)), w - 1)

\* value of a sequence of decimal digits ('' is 0)
RECURSIVE DigitsVal(_)
DigitsVal(s) == IF s = <<>> THEN 0 ELSE 10 * DigitsVal(SubSeq(s, 1, Len(s) - 1)) + DigitVal(s[Len(s)])

AllDigits(s) == \A i \in 1..Len(s) : IsDigit(s[i])

\* index of the first occurrence of c in s, 0 when there is none
IndexOf(s, c) ==
    IF \E i \in 1..Len(s) : s[i] = c THEN CHOOSE i \in 1..Len(s) : s[i] = c /\ \A j \in 1..(i - 1) : s[j] # c ELSE 0

\* str.split(c): the fields of s between occurrences of c
RECURSIVE Split(_, _)
Split(s, c) ==
    IF IndexOf(s, c) = 0 THEN <<s>>
    ELSE <<SubSeq(s, 1, IndexOf(s, c) - 1)>> \o Split(SubSeq(s, IndexOf(s, c) + 1, Len(s)), c)

(* ------------------------------------------------------------------ *)
(* Cells of a source file                                              *)
(* A cell is missing (pandas NA), a string, or a number read_csv       *)
(* already parsed (thousandths).                                       *)
(* ------------------------------------------------------------------ *)

NA == [k |-> "na", v |-> <<>>]

Str(chars) == [k |-> "str", v |-> chars]

Num(mills) == [k |-> "num", v |-> <<mills>>]

\* pd.isna
IsNA(cell) == cell.k = "na"

(* ------------------------------------------------------------------ *)
(* standardize_date                                                    *)
(* ------------------------------------------------------------------ *)

\* None, as standardize_date returns it (NaT once in the DataFrame column)
NoneDate == [y |-> 0, m |-> 0, d |-> 0, hh |-> 0, mi |-> 0, ss |-> 0]

IsLeap(y) == (y % 4 = 0 /\ y % 100 # 0) \/ y % 400 = 0

DaysInMonth(y, m) ==
    IF m = 2 THEN (IF IsLeap(y) THEN 29 ELSE 28)
    ELSE IF m \in {4, 6, 9, 11} THEN 30 ELSE 31

\* a field of one or two digits, as strptime's %m, %d, %H, %M, %S accept
IsShortField(s) == Len(s) \in 1..2 /\ AllDigits(s)

\* %Y: exactly four digits
IsYearField(s) == Len(s) = 4 /\ AllDigits(s)

ValidYMD(y, m, d) == m \in 1..12 /\ d >= 1 /\ d <= DaysInMonth(y, m)

\* datetime.strptime(s, fmt) for the three date-only formats; ord names which
\* of the three fields is the year, the month and the day.  NoneDate stands
\* for the ValueError.
StrptimeDate(s, sep, yi, mi, di) ==
    LET f == Split(s, sep) IN
    IF Len(f) = 3 /\ IsYearField(f[yi]) /\ IsShortField(f[mi]) /\ IsShortField(f[di])
       /\ ValidYMD(DigitsVal(f[yi]), DigitsVal(f[mi]), DigitsVal(f[di]))
    THEN [y |-> DigitsVal(f[yi]), m |-> DigitsVal(f[mi]), d |-> DigitsVal(f[di]),
          hh |-> 0, mi |-> 0, ss |-> 0]
    ELSE NoneDate

\* datetime.strptime(s, '%Y-%m-%d %H:%M:%S')
StrptimeDateTime(s) ==
    LET p == Split(s, " ") IN
    IF Len(p) # 2 THEN NoneDate
    ELSE LET dt == StrptimeDate(p[1], "-", 1, 2, 3)
             t  == Split(p[2], ":") IN
         IF dt # NoneDate /\ Len(t) = 3 /\ \A i \in 1..3 : IsShortField(t[i])
            /\ DigitsVal(t[1]) <= 23 /\ DigitsVal(t[2]) <= 59 /\ DigitsVal(t[3]) <= 59
         THEN [dt EXCEPT !.hh = DigitsVal(t[1]), !.mi = DigitsVal(t[2]), !.ss = DigitsVal(t[3])]
         ELSE NoneDate

\* pd.to_datetime(s), the fallback parser: of the strings no listed format
\* takes, the model has it parse year/month/day written with '/', and raise
\* on anything else (the exception handler then returns None).
PdToDatetime(s) == StrptimeDate(s, "/", 1, 2, 3)

\* the ordered list of formats at base_extractor.py:76; the first that parses wins
TryFormats(s) ==
    IF StrptimeDate(s, "-", 1, 2, 3) # NoneDate THEN StrptimeDate(s, "-", 1, 2, 3)
    ELSE IF StrptimeDate(s, "/", 3, 1, 2) # NoneDate THEN StrptimeDate(s, "/", 3, 1, 2)
    ELSE IF StrptimeDate(s, "/", 3, 2, 1) # NoneDate THEN StrptimeDate(s, "/", 3, 2, 1)
    ELSE IF StrptimeDateTime(s) # NoneDate THEN StrptimeDateTime(s)
    ELSE PdToDatetime(s)

standardize_date(date_input) ==
    IF IsNA(date_input) THEN NoneDate
    ELSE IF date_input.k = "str" THEN TryFormats(date_input.v)
    ELSE NoneDate

\* datetime.isoformat()
IsoFormat(dt) ==
    ZeroPad(dt.y, 4) \o "-" \o ZeroPad(dt.m, 2) \o "-" \o ZeroPad(dt.d, 2) \o "T"
    \o ZeroPad(dt.hh, 2) \o ":" \o ZeroPad(dt.mi, 2) \o ":" \o ZeroPad(dt.ss, 2)

(* ------------------------------------------------------------------ *)
(* standardize_amount                                                  *)
(* ------------------------------------------------------------------ *)

\* the result of float(): ok is FALSE for the ValueError
FloatError == [ok |-> FALSE, mills |-> 0]

\* float(s) for an unsigned decimal literal of at most three decimals
FloatUnsigned(s) ==
    LET f == Split(s, ".") IN
    IF Len(f) = 1 /\ Len(f[1]) >= 1 /\ AllDigits(f[1])
    THEN [ok |-> TRUE, mills |-> 1000 * DigitsVal(f[1])]
    ELSE IF Len(f) = 2 /\ Len(f[1]) + Len(f[2]) >= 1 /\ AllDigits(f[1]) /\ AllDigits(f[2])
            /\ Len(f[2]) <= 3
    THEN [ok |-> TRUE,
          mills |-> 1000 * DigitsVal(f[1]) + DigitsVal(f[2]) * (10 ^ (3 - Len(f[2])))]
    ELSE FloatError

\* float(s): optional surrounding whitespace, optional sign, decimal literal
FloatOf(s) ==
    LET t == Strip(s) IN
    IF t # <<>> /\ t[1] \in {"-", "+"}
    THEN LET u == FloatUnsigned(Tail(t)) IN
         IF u.ok /\ t[1] = "-" THEN [ok |-> TRUE, mills |-> 0 - u.mills] ELSE u
    ELSE FloatUnsigned(t)

Abs(x) == IF x < 0 THEN 0 - x ELSE x

\* round(x, 2) of a value given in thousandths, in cents (the cells the model
\* draws hold no exact tie)
Round2(mills) ==
    LET a == Abs(mills)
        c == IF a % 10 >= 5 THEN a \div 10 + 1 ELSE a \div 10 IN
    IF mills < 0 THEN 0 - c ELSE c

\* standardize_amount without regard to the credit flag
standardize_amount_flag_ignored(amount, is_credit) ==
    IF IsNA(amount) THEN 0
    ELSE LET parsed == IF amount.k = "str"
                       THEN FloatOf(Strip(Remove(Remove(amount.v, "$"), ",")))
                       ELSE [ok |-> TRUE, mills |-> amount.v[1]] IN
         IF ~parsed.ok THEN 0 ELSE Round2(parsed.mills)

\* standardize_amount negating every amount of a credit institution
standardize_amount_negate_all(amount, is_credit) ==
    IF IsNA(amount) THEN 0
    ELSE LET parsed == IF amount.k = "str"
                       THEN FloatOf(Strip(Remove(Remove(amount.v, "$"), ",")))
                       ELSE [ok |-> TRUE, mills |-> amount.v[1]] IN
         IF ~parsed.ok THEN 0
         ELSE IF is_credit THEN Round2(0 - parsed.mills)
         ELSE Round2(parsed.mills)

\* the float standardize_amount returns, in cents
standardize_amount(amount, is_credit) ==
    IF IsNA(amount) THEN 0
    ELSE LET parsed == IF amount.k = "str"
                       THEN FloatOf(Strip(Remove(Remove(amount.v, "$"), ",")))
                       ELSE [ok |-> TRUE, mills |-> amount.v[1]] IN
         IF ~parsed.ok THEN 0
         ELSE IF is_credit /\ parsed.mills > 0 THEN Round2(0 - parsed.mills)
         ELSE Round2(parsed.mills)

\* str(x) of a float holding a two-decimal amount (cents): '-45.0', '12.34'
FloatStr(cents) ==
    LET a == Abs(cents) IN
    (IF cents < 0 THEN "-" ELSE "") \o ToString(a \div 100) \o "."
    \o (IF a % 10 = 0 THEN ToString((a % 100) \div 10) ELSE ZeroPad(a % 100, 2))

(* ------------------------------------------------------------------ *)
(* More text helpers: case folding and substring search                *)
(* ------------------------------------------------------------------ *)

UpperLetters == <<"A", "B", "C", "D", "E", "F", "G", "H", "I", "J", "K", "L", "M",
                  "N", "O", "P", "Q", "R", "S", "T", "U", "V", "W", "X", "Y", "Z">>

LowerLetters == <<"a", "b", "c", "d", "e", "f", "g", "h", "i", "j", "k", "l", "m",
                  "n", "o", "p", "q", "r", "s", "t", "u", "v", "w", "x", "y", "z">>

LowerChar(c) ==
    IF \E i \in 1..26 : UpperLetters[i] = c
    THEN LowerLetters[CHOOSE i \in 1..26 : UpperLetters[i] = c] ELSE c

UpperChar(c) ==
    IF \E i \in 1..26 : LowerLetters[i] = c
    THEN UpperLetters[CHOOSE i \in 1..26 : LowerLetters[i] = c] ELSE c

\* str.lower()
Lower(s) == [i \in 1..Len(s) |-> LowerChar(s[i])]

\* str.upper()
Upper(s) == [i \in 1..Len(s) |-> UpperChar(s[i])]

\* sub in s
Contains(s, sub) ==
    \E i \in 1..(Len(s) - Len(sub) + 1) : SubSeq(s, i, i + Len(sub) - 1) = sub

(* ------------------------------------------------------------------ *)
(* standardize_currency and detect_channel                             *)
(* ------------------------------------------------------------------ *)

\* currency_map at base_extractor.py:99 (keys and values as character sequences)
currency_map(code) ==
    IF code \in {<<"U", "S">>, <<"U", "S", "A">>, <<"D", "O", "L", "L", "A", "R">>, <<"$">>}
    THEN <<"U", "S", "D">>
    ELSE IF code \in {<<"E", "U", "R", "O">>, <<"E", "U">>}
    THEN <<"E", "U", "R">>
    ELSE IF code \in {<<"P", "O", "U", "N", "D">>, <<"U", "K">>}
    THEN <<"G", "B", "P">>
    ELSE code

standardize_currency(currency) ==
    IF IsNA(currency) THEN <<"U", "S", "D">>
    ELSE currency_map(Upper(Strip(currency.v)))

pos_words == {<<"p", "o", "s">>, <<"p", "o", "i", "n", "t", " ", "o", "f", " ", "s", "a", "l", "e">>,
              <<"d", "e", "b", "i", "t">>}

ecom_words == {<<"o", "n", "l", "i", "n", "e">>, <<"e", "c", "o", "m", "m", "e", "r", "c", "e">>,
               <<"w", "e", "b">>}

ach_words == {<<"a", "c", "h">>, <<"t", "r", "a", "n", "s", "f", "e", "r">>, <<"w", "i", "r", "e">>}

zelle_words == {<<"z", "e", "l", "l", "e">>, <<"v", "e", "n", "m", "o">>, <<"p", "a", "y", "p", "a", "l">>}

atm_words == {<<"a", "t", "m">>, <<"w", "i", "t", "h", "d", "r", "a", "w", "a", "l">>}

AnyWordIn(words, text) == \E w \in words : Contains(text, w)

\* detect_channel with the keywords of atm tested first
detect_channel_atm_first(description) ==
    IF description = <<>> THEN "unknown"
    ELSE LET description_lower == Lower(description) IN
         IF AnyWordIn(atm_words, description_lower) THEN "atm"
         ELSE IF AnyWordIn(pos_words, description_lower) THEN "pos"
         ELSE IF AnyWordIn(ecom_words, description_lower) THEN "ecom"
         ELSE IF AnyWordIn(ach_words, description_lower) THEN "ach"
         ELSE IF AnyWordIn(zelle_words, description_lower) THEN "zelle"
         ELSE "unknown"

detect_channel(description) ==
    IF description = <<>> THEN "unknown"
    ELSE LET description_lower == Lower(description) IN
         IF AnyWordIn(pos_words, description_lower) THEN "pos"
         ELSE IF AnyWordIn(ecom_words, description_lower) THEN "ecom"
         ELSE IF AnyWordIn(ach_words, description_lower) THEN "ach"
         ELSE IF AnyWordIn(zelle_words, description_lower) THEN "zelle"
         ELSE IF AnyWordIn(atm_words, description_lower) THEN "atm"
         ELSE "unknown"

(* ------------------------------------------------------------------ *)
(* CSVExtractor: the institution configurations                        *)
(* ------------------------------------------------------------------ *)

\* CSVExtractor.__init__: is_credit defaults to False
CSVExtractor(institution, column_mapping, is_credit) ==
    [institution |-> institution, column_mapping |-> column_mapping, is_credit |-> is_credit]

create_chase_extractor ==
    CSVExtractor("Chase",
                 ("Transaction Date" :> "posted_at") @@ ("Post Date" :> "posted_at")
                 @@ ("Description" :> "merchant_raw") @@ ("Category" :> "category_raw")
                 @@ ("Type" :> "description") @@ ("Amount" :> "amount")
                 @@ ("Memo" :> "description"),
                 FALSE)

create_amex_extractor ==
    CSVExtractor("American Express",
                 ("Date" :> "posted_at") @@ ("Description" :> "merchant_raw")
                 @@ ("Category" :> "category_raw") @@ ("Amount" :> "amount")
                 @@ ("Reference" :> "description"),
                 TRUE)

create_bank_of_america_extractor ==
    CSVExtractor("Bank of America",
                 ("Date" :> "posted_at") @@ ("Description" :> "merchant_raw")
                 @@ ("Amount" :> "amount") @@ ("Type" :> "description")
                 @@ ("Balance" :> "description"),
                 FALSE)

create_wells_fargo_extractor ==
    CSVExtractor("Wells Fargo",
                 ("Date" :> "posted_at") @@ ("Description" :> "merchant_raw")
                 @@ ("Amount" :> "amount") @@ ("Type" :> "description")
                 @@ ("Balance" :> "description"),
                 FALSE)

\* the generic extractor built inline in extract_load_raw
generic_extractor ==
    CSVExtractor("Unknown",
                 ("Date" :> "posted_at") @@ ("Description" :> "merchant_raw")
                 @@ ("Amount" :> "amount") @@ ("Category" :> "category_raw"),
                 FALSE)

\* the if/elif chain on filename.lower() in extract_load_raw
ExtractorFor(filename) ==
    LET lower == Lower(filename) IN
    IF Contains(lower, <<"c", "h", "a", "s", "e">>) THEN create_chase_extractor
    ELSE IF Contains(lower, <<"a", "m", "e", "x">>)
            \/ Contains(lower, <<"a", "m", "e", "r", "i", "c", "a", "n", "_", "e", "x", "p", "r", "e", "s", "s">>)
    THEN create_amex_extractor
    ELSE IF Contains(lower, <<"b", "a", "n", "k", "_", "o", "f", "_", "a", "m", "e", "r", "i", "c", "a">>)
    THEN create_bank_of_america_extractor
    ELSE IF Contains(lower, <<"w", "e", "l", "l", "s", "_", "f", "a", "r", "g", "o">>)
    THEN create_wells_fargo_extractor
    ELSE generic_extractor

(* ------------------------------------------------------------------ *)
(* CSVExtractor.extract                                                *)
(* A file is [header, rows]: header is the set of column names of the  *)
(* CSV, and a row holds one cell per canonical role; a cell is read    *)
(* only when the renamed header carries its column.                    *)
(* ------------------------------------------------------------------ *)

\* required_columns with description forgotten
required_columns_without_description == {"posted_at", "amount", "merchant_raw"}

required_columns == {"posted_at", "amount", "merchant_raw", "description"}

\* df.rename(columns=self.column_mapping)
Rename(header, column_mapping) ==
    {IF c \in DOMAIN column_mapping THEN column_mapping[c] ELSE c : c \in header}

\* [col for col in required_columns if col not in df.columns]
missing_columns(columns) == required_columns \ columns

\* fillna('').astype(str).str.strip() of a text cell
CleanText(cell) == IF cell.k = "str" THEN Strip(cell.v) ELSE <<>>

\* one row after the standardizations of lines 39-56
StandardizeRow(self, columns, row) ==
    [posted_at    |-> standardize_date(row.posted_at),
     amount       |-> standardize_amount(row.amount, self.is_credit),
     merchant_raw |-> CleanText(row.merchant_raw),
     description  |-> CleanText(row.description),
     category_raw |-> IF "category_raw" \in columns THEN row.category_raw ELSE NA,
     currency     |-> IF "currency" \in columns THEN row.currency ELSE NA]

\* KeepRow without the dropna
KeepRow_without_dropna(r) == r.amount # 0

\* dropna(subset=['posted_at', 'amount']) and df[df['amount'] != 0]
KeepRow(r) == r.posted_at # NoneDate /\ r.amount # 0

\* the DataFrame extract returns, or ok = FALSE for the exception it raises
extract(self, file) ==
    LET columns == Rename(file.header, self.column_mapping) IN
    IF missing_columns(columns) # {}
    THEN [ok |-> FALSE, columns |-> columns, rows |-> <<>>]
    ELSE [ok |-> TRUE,
          columns |-> columns \cup {"mcc", "category_raw", "city", "state", "country"},
          rows |-> SelectSeq([i \in 1..Len(file.rows) |-> StandardizeRow(self, columns, file.rows[i])],
                             KeepRow)]

(* ------------------------------------------------------------------ *)
(* BaseExtractor.generate_txn_id and transform                         *)
(* ------------------------------------------------------------------ *)

\* hashlib.sha256(...).hexdigest(): a collision-free digest of its input
Sha256(hash_input) == <<"sha256", hash_input>>

\* the f-string of base_extractor.py:43
hash_input(institution, posted_at, amount, merchant, description) ==
    IsoFormat(posted_at) \o FloatStr(amount) \o Join(merchant) \o Join(description) \o institution

generate_txn_id(institution, posted_at, amount, merchant, description) ==
    Sha256(hash_input(institution, posted_at, amount, merchant, description))

\* CURRENT_DATE / the date part of datetime.now() during the modelled runs
Today == [y |-> 2024, m |-> 6, d |-> 15, hh |-> 0, mi |-> 0, ss |-> 0]

\* datetime.now().strftime('%Y%m%d_%H%M%S'), t minutes after 02:00:00 (the schedule)
Strftime(t) ==
    ZeroPad(Today.y, 4) \o ZeroPad(Today.m, 2) \o ZeroPad(Today.d, 2) \o "_"
    \o ZeroPad(2 + t \div 60, 2) \o ZeroPad(t % 60, 2) \o ZeroPad(0, 2)

\* None in a text column
None == "None"

\* TransformRow with the batch stamp hashed into the identity
TransformRow_stamped(self, r, t) ==
    [txn_id          |-> Sha256(hash_input(self.institution, r.posted_at, r.amount,
                                           r.merchant_raw, r.description) \o Strftime(t)),
     institution     |-> self.institution,
     posted_at       |-> r.posted_at,
     amount          |-> r.amount,
     merchant_raw    |-> Join(r.merchant_raw),
     description     |-> Join(r.description),
     category_raw    |-> IF IsNA(r.category_raw) THEN None ELSE Join(r.category_raw.v),
     currency        |-> Join(standardize_currency(r.currency)),
     channel         |-> detect_channel(r.description),
     import_batch_id |-> self.institution \o "_" \o Strftime(t),
     created_at      |-> t]

\* one row of the DataFrame transform returns, stamped at time t; the text
\* columns are held as the strings they are
TransformRow(self, r, t) ==
    [txn_id          |-> generate_txn_id(self.institution, r.posted_at, r.amount,
                                         r.merchant_raw, r.description),
     institution     |-> self.institution,
     posted_at       |-> r.posted_at,
     amount          |-> r.amount,
     merchant_raw    |-> Join(r.merchant_raw),
     description     |-> Join(r.description),
     category_raw    |-> IF IsNA(r.category_raw) THEN None ELSE Join(r.category_raw.v),
     currency        |-> Join(standardize_currency(r.currency)),
     channel         |-> detect_channel(r.description),
     import_batch_id |-> self.institution \o "_" \o Strftime(t),
     created_at      |-> t]

\* transform: ok = FALSE for the ValueError of a missing required column and for
\* the AttributeError of df.get('currency', 'USD').apply when the DataFrame has
\* no currency column (df.get then returns the str 'USD')
transform(self, df, t) ==
    IF missing_columns(df.columns) # {} \/ "currency" \notin df.columns
    THEN [ok |-> FALSE, rows |-> <<>>]
    ELSE [ok |-> TRUE, rows |-> [i \in 1..Len(df.rows) |-> TransformRow(self, df.rows[i], t)]]

(* ------------------------------------------------------------------ *)
(* The data directory                                                  *)
(* ------------------------------------------------------------------ *)

\* rows per drawn file
MaxRows == 2

\* runs of the extract/load task (SpecExtract) and scheduled runs of the
\* pipeline (Spec)
MaxRuns == 2

Runs == 1..MaxRuns

Row(posted_at, amount, merchant_raw, description, category_raw, currency) ==
    [posted_at |-> posted_at, amount |-> amount, merchant_raw |-> merchant_raw,
     description |-> description, category_raw |-> category_raw, currency |-> currency]

Dining == Str(<<"D", "i", "n", "i", "n", "g">>)

\* a recent expense, written the way a bank export writes it
RowIso == Row(Str(<<"2", "0", "2", "4", "-", "0", "6", "-", "1", "0">>), Str(<<"-", "$", "4", "5", ".", "0", "0">>), Str(<<"T", "J">>), Str(<<"P", "O", "S", " ", "1">>), Dining, Str(<<"$">>))

\* the same transaction in another export: US date, numeric amount, padded text
RowUs == Row(Str(<<"0", "6", "/", "1", "0", "/", "2", "0", "2", "4">>), Num(-45000), Str(<<" ", "T", "J", " ">>), Str(<<"P", "O", "S", " ", "1">>), Dining, Str(<<"u", "s", "d">>))

\* an unparseable date
RowBadDate == Row(Str(<<"i", "n", "v", "a", "l", "i", "d">>), Str(<<"-", "$", "4", "5", ".", "0", "0">>), Str(<<"T", "J">>), Str(<<"P", "O", "S", " ", "2">>), Dining, NA)

\* an unparseable amount
RowBadAmount == Row(Str(<<"2", "0", "2", "4", "-", "0", "6", "-", "1", "0">>), Str(<<"(", "4", "5", ".", "0", "0", ")">>), Str(<<"T", "J">>), Str(<<"P", "O", "S", " ", "3">>), Dining, NA)

\* a missing amount and a missing merchant
RowNoAmount == Row(Str(<<"2", "0", "2", "4", "-", "0", "6", "-", "1", "1">>), NA, NA, Str(<<"w", "e", "b">>), Dining, NA)

\* an older credit with a third decimal
RowOld == Row(Str(<<"2", "0", "2", "4", "-", "0", "3", "-", "0", "1">>), Str(<<"1", ",", "0", "1", "2", ".", "3", "4", "6">>), Str(<<"A", "C", "M", "E">>), Str(<<"w", "i", "r", "e", " ", "i", "n">>), NA, Str(<<"E", "u", "r", "o">>))

RawRows == {RowIso, RowUs, RowBadDate, RowBadAmount, RowNoAmount}

\* the sequences over S of length at most n
SeqsUpTo(S, n) == UNION {[1..k -> S] : k \in 0..n}

ChaseCsv == <<"c", "h", "a", "s", "e", "_", "t", "r", "a", "n", "s", "a", "c", "t", "i", "o", "n", "s", ".", "c", "s", "v">>

AmexCsv == <<"a", "m", "e", "x", "_", "2", "0", "2", "4", ".", "c", "s", "v">>

NotesTxt == <<"n", "o", "t", "e", "s", ".", "t", "x", "t">>

ChaseHeader == {"Transaction Date", "Description", "Amount", "Memo", "Category", "currency"}

AmexHeader == {"Date", "Description", "Amount", "Reference", "Category", "currency"}

\* headers a drawn Chase export can have: complete, without the column that
\* maps to description, without a currency column
ChaseHeaders == {ChaseHeader, ChaseHeader \ {"Memo"}, ChaseHeader \ {"currency"}}

File(header, rows) == [header |-> header, rows |-> rows]

\* a charge and a refund on the card
AmexRows ==
    <<Row(Str(<<"0", "6", "/", "1", "2", "/", "2", "0", "2", "4">>), Str(<<"1", "9", ".", "9", "9">>), Str(<<"N", "e", "t", "f", "l", "i", "x">>), Str(<<"o", "n", "l", "i", "n", "e">>), Str(<<"F", "u", "n">>), NA),
      Row(Str(<<"0", "6", "/", "1", "3", "/", "2", "0", "2", "4">>), Str(<<"-", "5", ".", "0", "0">>), Str(<<"N", "e", "t", "f", "l", "i", "x">>), Str(<<"r", "e", "f", "u", "n", "d">>), Str(<<"F", "u", "n">>), NA)>>

Rent(posted_at, description) ==
    Row(Str(posted_at), Str(<<"-", "1", "5", ".", "0", "0">>), Str(<<"L", "a", "n", "d", "l", "o", "r", "d">>), Str(description), Str(<<"R", "e", "n", "t">>), NA)

\* three payments in May and three in June
RentRows ==
    <<Rent(<<"2", "0", "2", "4", "-", "0", "5", "-", "0", "1">>, <<"r", "1">>), Rent(<<"2", "0", "2", "4", "-", "0", "5", "-", "0", "2">>, <<"r", "2">>), Rent(<<"2", "0", "2", "4", "-", "0", "5", "-", "0", "3">>, <<"r", "3">>),
      Rent(<<"2", "0", "2", "4", "-", "0", "6", "-", "0", "1">>, <<"r", "4">>), Rent(<<"2", "0", "2", "4", "-", "0", "6", "-", "0", "2">>, <<"r", "5">>), Rent(<<"2", "0", "2", "4", "-", "0", "6", "-", "0", "3">>, <<"r", "6">>)>>

\* two exports that load, with merchants first seen in the last 30 days
DirNovel ==
    (ChaseCsv :> File(ChaseHeader, <<RowIso, RowOld>>)) @@ (AmexCsv :> File(AmexHeader, AmexRows))

\* an export that loads, next to one without its Reference column
DirBroken ==
    (ChaseCsv :> File(ChaseHeader, <<RowUs>>))
    @@ (AmexCsv :> File(AmexHeader \ {"Reference"}, AmexRows))

\* an export with two months of history for one category
DirHistory ==
    (ChaseCsv :> File(ChaseHeader, RentRows)) @@ (NotesTxt :> File({}, <<>>))

\* the directories SpecExtract draws: a Chase export of up to MaxRows rows
\* under any of its headers, next to a file that is no CSV, and the
\* directories with two exports
DrawnDirs ==
    {(ChaseCsv :> File(h, rows)) @@ (NotesTxt :> File({}, <<>>)) :
        h \in ChaseHeaders, rows \in SeqsUpTo(RawRows, MaxRows)}
    \cup {DirNovel, DirBroken}

\* the directories Spec runs the pipeline over
PipelineDirs == {DirNovel, DirHistory}

(* ------------------------------------------------------------------ *)
(* Exports for the anomaly detector: the expenses of one category      *)
(* ------------------------------------------------------------------ *)

\* observations per category
MaxObs == 11

\* the absolute amounts of the first observations, in cents
Usual == <<20, 21, 19, 20, 20>>

\* the absolute amounts of n observations, in cents: the first n - 1 all 20
\* or cycling through Usual, then `last`
Observations(n, spread, last) ==
    [i \in 1..n |-> IF i = n THEN last ELSE IF spread THEN Usual[((i - 1) % 5) + 1] ELSE 20]

\* the i-th expense of an export, of `cents`, posted on the date
Expense(i, cents, posted_at) ==
    Row(Str(posted_at), Num(0 - 10 * cents), Str(<<"S", "h", "o", "p">>),
        Str(<<"o", Digits[(i \div 10) + 1], Digits[(i % 10) + 1]>>), Dining, Str(<<"U", "S", "D">>))

\* dates of an earlier payment to the merchant: 30, 31, 106 and 197 days
\* before Today
EarlierDates == {<<"2", "0", "2", "4", "-", "0", "5", "-", "1", "6">>, <<"2", "0", "2", "4", "-", "0", "5", "-", "1", "5">>, <<"2", "0", "2", "4", "-", "0", "3", "-", "0", "1">>, <<"2", "0", "2", "3", "-", "1", "2", "-", "0", "1">>}

\* a Chase export of the observations as expenses of 2024-06-10, after the
\* earlier payments
ObsDir(amounts, earlier) ==
    (ChaseCsv :> File(ChaseHeader,
                      [i \in 1..Len(earlier) |-> Expense(50 + i, 20, earlier[i])]
                      \o [i \in 1..Len(amounts) |-> Expense(i, amounts[i], <<"2", "0", "2", "4", "-", "0", "6", "-", "1", "0">>)]))

\* the directories SpecDetect draws: up to MaxObs observations with a last
\* one that is usual, large or very large, one or two observations after
\* an earlier payment, and the usual ones with both large ones
DetectDirs ==
    {ObsDir(Observations(n, spread, last), <<>>) :
        n \in 1..MaxObs, spread \in BOOLEAN, last \in {20, 22, 300, 500}}
    \cup {ObsDir(Observations(n, FALSE, 20), <<d>>) : n \in 1..2, d \in EarlierDates}
    \cup {ObsDir(Usual \o <<300, 500>>, <<>>)}

(* ------------------------------------------------------------------ *)
(* Exports of one row, for the standardization of a single field       *)
(* ------------------------------------------------------------------ *)

\* an export no factory method is chosen for
BankCsv == <<"b", "a", "n", "k", "_", "e", "x", "p", "o", "r", "t", ".", "c", "s", "v">>

\* a header the generic extractor accepts: its mapping names no column for
\* description, so the file carries one under that name
GenericHeader == {"Date", "Description", "Amount", "Category", "description", "currency"}

HeaderOf(f) == IF f = ChaseCsv THEN ChaseHeader ELSE IF f = AmexCsv THEN AmexHeader ELSE GenericHeader

\* raw amounts: the ones of test_standardize_amount, debits and credits with
\* and without a currency sign, a third decimal, an unparseable one
AmountCells ==
    {Str(<<"1", "0", "0", ".", "5", "0">>), Str(<<"$", "1", ",", "0", "0", "0", ".", "0", "0">>), Num(-50250), NA, Str(<<"-", "$", "4", "5", ".", "0", "0">>), Str(<<"1", "9", ".", "9", "9">>),
     Str(<<"-", "5", ".", "0", "0">>), Str(<<"1", ",", "0", "1", "2", ".", "3", "4", "6">>), Num(7500), Str(<<"(", "4", "5", ".", "0", "0", ")">>)}

\* raw currencies: none, the symbols and abbreviations of the currency map in
\* any case and padding, ISO codes, and values the map does not hold
CurrencyCells ==
    {NA, Str(<<"$">>), Str(<<"u", "s", "d">>), Str(<<"U", "S">>), Str(<<" ", "d", "o", "l", "l", "a", "r", " ">>), Str(<<"E", "u", "r", "o">>), Str(<<"e", "u">>),
     Str(<<"P", "o", "u", "n", "d">>), Str(<<"U", "K">>), Str(<<"E", "U", "R">>), Str(<<"c", "a", "d">>), Str(<<"x", "y", "z">>), Str(<<"B", "i", "t", "c", "o", "i", "n">>), Str(<<" ">>)}

\* descriptions: the ones of test_detect_channel, one for each keyword list,
\* ones with keywords of two lists, a keyword inside a word, none
DescriptionCells ==
    {Str(<<"P", "O", "S", " ", "t", "r", "a", "n", "s", "a", "c", "t", "i", "o", "n">>), Str(<<"O", "n", "l", "i", "n", "e", " ", "p", "u", "r", "c", "h", "a", "s", "e">>), Str(<<"A", "C", "H", " ", "t", "r", "a", "n", "s", "f", "e", "r">>), Str(<<"Z", "e", "l", "l", "e", " ", "p", "a", "y", "m", "e", "n", "t">>),
     Str(<<"U", "n", "k", "n", "o", "w", "n">>), Str(<<>>), NA, Str(<<"A", "T", "M", " ", "w", "i", "t", "h", "d", "r", "a", "w", "a", "l">>), Str(<<"D", "E", "B", "I", "T", " ", "c", "a", "r", "d">>),
     Str(<<"o", "n", "l", "i", "n", "e", " ", "t", "r", "a", "n", "s", "f", "e", "r">>), Str(<<"w", "e", "b", " ", "p", "o", "s">>), Str(<<"w", "i", "r", "e", " ", "v", "i", "a", " ", "p", "a", "y", "p", "a", "l">>), Str(<<"v", "e", "n", "m", "o", " ", "a", "t", "m">>),
     Str(<<"a", "t", "m", " ", "z", "e", "l", "l", "e", " ", "a", "c", "h">>), Str(<<"D", "e", "p", "o", "s", "i", "t">>), Str(<<"r", "e", "n", "t">>)}

\* merchants: none, and one that is blank
MerchantCells == {NA, Str(<<" ">>)}

\* RowIso with one field replaced
FieldRows ==
    {[RowIso EXCEPT !.amount = a] : a \in AmountCells}
    \cup {[RowIso EXCEPT !.merchant_raw = m] : m \in MerchantCells}
    \cup {[RowIso EXCEPT !.currency = c] : c \in CurrencyCells}
    \cup {[RowIso EXCEPT !.description = d] : d \in DescriptionCells}

\* the transaction of RowIso at a merchant one letter longer, with a
\* description one letter shorter
RowSplit == [RowIso EXCEPT !.merchant_raw = Str(<<"T", "J", "P">>), !.description = Str(<<"O", "S", " ", "1">>)]

\* the directories SpecRows draws: one export of one row for each extractor,
\* a Chase export without a currency column, and one export of two rows
RowDirs ==
    {(f :> File(HeaderOf(f), <<row>>)) : f \in {ChaseCsv, AmexCsv, BankCsv}, row \in FieldRows}
    \cup {(ChaseCsv :> File(ChaseHeader \ {"currency"}, <<RowIso>>))}
    \cup {(f :> File(HeaderOf(f), <<RowIso, RowSplit>>)) : f \in {ChaseCsv, AmexCsv, BankCsv}}

\* filename.endswith(suffix)
EndsWith(s, suffix) ==
    Len(s) >= Len(suffix) /\ SubSeq(s, Len(s) - Len(suffix) + 1, Len(s)) = suffix

\* the files the loop of extract_load_raw processes
csv_files(dir) == {f \in DOMAIN dir : EndsWith(f, <<".", "c", "s", "v">>)}

(* ------------------------------------------------------------------ *)
(* State                                                               *)
(* ------------------------------------------------------------------ *)

VARIABLES
    data_dir,               \* /opt/airflow/data: file name -> file
    now,                    \* the clock: minutes since 02:00:00 of Today
    raw_transactions,       \* the rows of raw.transactions, oldest first
    mart_anomalies,         \* the rows of the anomaly table, oldest first
    mart_anomalies_id_seq,  \* last value of marts.mart_anomalies_id_seq
    mart_forecasts,         \* the rows of marts.mart_forecasts, oldest first
    task_state,             \* run -> task -> state of the task instance
    try_number,             \* run -> task -> attempts started of an instance that is not over
    job,                    \* run -> what the loop of extract_load_raw did so far
    response                \* what the serving layer answered in the last step

vars == <<data_dir, now, raw_transactions, mart_anomalies, mart_anomalies_id_seq,
          mart_forecasts, task_state, try_number, job, response>>

stores == <<raw_transactions, mart_anomalies, mart_anomalies_id_seq, mart_forecasts>>

Tasks == {"extract_load_raw", "dbt_run_tests", "dbt_build", "export_parquet", "load_columnar",
          "run_ge_suites", "run_anomaly_detect", "run_forecasts", "notify"}

\* Upstream with the edges into the analyses forgotten
Upstream_without_analysis_edges(t) ==
    CASE t = "extract_load_raw" -> {}
      [] t = "dbt_run_tests" -> {"extract_load_raw"}
      [] t = "dbt_build" -> {"dbt_run_tests"}
      [] t = "export_parquet" -> {"dbt_build"}
      [] t = "load_columnar" -> {"export_parquet"}
      [] t = "run_ge_suites" -> {"dbt_build", "export_parquet"}
      [] t = "run_anomaly_detect" -> {}
      [] t = "run_forecasts" -> {}
      [] t = "notify" -> {"run_ge_suites", "run_anomaly_detect", "run_forecasts"}

\* the task dependencies at the end of the DAG file
Upstream(t) ==
    CASE t = "extract_load_raw" -> {}
      [] t = "dbt_run_tests" -> {"extract_load_raw"}
      [] t = "dbt_build" -> {"dbt_run_tests"}
      [] t = "export_parquet" -> {"dbt_build"}
      [] t = "load_columnar" -> {"export_parquet"}
      [] t = "run_ge_suites" -> {"dbt_build", "export_parquet"}
      [] t = "run_anomaly_detect" -> {"dbt_build", "export_parquet"}
      [] t = "run_forecasts" -> {"dbt_build", "export_parquet"}
      [] t = "notify" -> {"run_ge_suites", "run_anomaly_detect", "run_forecasts"}

\* default_args['retries']
retries == 1

\* the outcome of one iteration of the loop over the files
NoResult == [status |-> "pending", extracted |-> <<>>, df |-> <<>>]

NoJob == [todo |-> {}, total_loaded |-> 0, results |-> <<>>]

NoResponse == [endpoint |-> "none", status_code |-> 0, total_transactions |-> 0,
               total_anomalies |-> 0, total_forecasts |-> 0]

InitWith(dirs) ==
    /\ data_dir \in dirs
    /\ now = 0
    /\ raw_transactions = <<>>
    /\ mart_anomalies = <<>>
    /\ mart_anomalies_id_seq = 0
    /\ mart_forecasts = <<>>
    /\ task_state = [r \in Runs |-> [t \in Tasks |-> "none"]]
    /\ try_number = [r \in Runs |-> [t \in Tasks |-> 0]]
    /\ job = [r \in Runs |-> NoJob]
    /\ response = NoResponse

(* ------------------------------------------------------------------ *)
(* The scheduler (Airflow): a task instance starts once every upstream *)
(* task of its run succeeded (trigger rule all_success); a task that   *)
(* raises is retried `retries` times and then failed; downstream of a  *)
(* failure nothing runs.                                               *)
(* ------------------------------------------------------------------ *)

Terminal == {"success", "failed", "upstream_failed"}

RunFinished(r) == \A t \in Tasks : task_state[r][t] \in Terminal

\* trigger rule all_success
CanStart(r, t) ==
    /\ task_state[r][t] \in {"none", "up_for_retry"}
    /\ \A u \in Upstream(t) : task_state[r][u] = "success"

\* the task instance starts an attempt
StartTask(r, t) ==
    /\ CanStart(r, t)
    /\ task_state' = [task_state EXCEPT ![r][t] = "running"]
    /\ try_number' = [try_number EXCEPT ![r][t] = @ + 1]

\* the state of a task instance whose attempt number `try` returned (ok) or
\* raised
StateAfter(try, ok) ==
    IF ok THEN "success" ELSE IF try <= retries THEN "up_for_retry" ELSE "failed"

\* the attempts counted for an instance in the given state
TriesAfter(try, state) == IF state \in Terminal THEN 0 ELSE try

\* the running attempt of a task instance ends
Finish(r, t, ok) ==
    /\ task_state[r][t] = "running"
    /\ task_state' = [task_state EXCEPT ![r][t] = StateAfter(try_number[r][t], ok)]
    /\ try_number' = [try_number EXCEPT ![r][t] = TriesAfter(@, StateAfter(@, ok))]

\* extract_load_raw starts, lines 37-60: it lists the directory
StartExtract(r) ==
    /\ StartTask(r, "extract_load_raw")
    /\ job' = [job EXCEPT ![r] = [todo |-> csv_files(data_dir), total_loaded |-> 0,
                                  results |-> [f \in csv_files(data_dir) |-> NoResult]]]
    /\ now' = now + 1
    /\ UNCHANGED <<data_dir, stores>>
    /\ response' = NoResponse

\* schedule_interval: a scheduled run starts when the one before it is over
TriggerScheduled(r) ==
    /\ IF r = 1 THEN TRUE ELSE RunFinished(r - 1)
    /\ StartExtract(r)

\* max_active_runs is not set and a run can be triggered by hand: a run
\* starts while the one before it is still loading (and no other is)
TriggerOverlapping(r) ==
    /\ \A q \in 1..(r - 1) : task_state[q]["extract_load_raw"] # "none"
    /\ \A q \in 1..(r - 2) : task_state[q]["extract_load_raw"] = "success"
    /\ StartExtract(r)

\* an attempt of a task instance from its start to the return (ok) or the
\* exception of its callable
Attempt(r, t, ok) ==
    /\ CanStart(r, t)
    /\ task_state' = [task_state EXCEPT ![r][t] = StateAfter(try_number[r][t] + 1, ok)]
    /\ try_number' = [try_number EXCEPT ![r][t] = TriesAfter(@ + 1, StateAfter(@ + 1, ok))]

SkipDownstream(r, t) ==
    /\ task_state[r][t] = "none"
    /\ \E u \in Upstream(t) : task_state[r][u] \in {"failed", "upstream_failed"}
    /\ task_state' = [task_state EXCEPT ![r][t] = "upstream_failed"]
    /\ UNCHANGED <<data_dir, now, stores, try_number, job>>
    /\ response' = NoResponse

(* ------------------------------------------------------------------ *)
(* The store's transaction table                                       *)
(* ------------------------------------------------------------------ *)

\* the write of one DataFrame to raw.transactions (df.to_sql, if_exists =
\* 'append', one multi-row statement), which the store applies with
\* insert-if-absent on the identity
RECURSIVE to_sql_transactions(_, _)
to_sql_transactions(table, df) ==
    IF df = <<>> THEN table
    ELSE to_sql_transactions(
             IF \E i \in 1..Len(table) : table[i].txn_id = Head(df).txn_id
             THEN table ELSE Append(table, Head(df)),
             Tail(df))

(* ------------------------------------------------------------------ *)
(* extract_load_raw                                                    *)
(* ------------------------------------------------------------------ *)

\* extractor.extract(filepath) for every file of every directory: what
\* extract returns depends on the extractor and the file only
extracted_of ==
    [dir \in DrawnDirs \cup PipelineDirs \cup DetectDirs \cup RowDirs |->
        [f \in csv_files(dir) |-> extract(ExtractorFor(f), dir[f])]]

\* what one iteration of the loop leaves behind for the file, given the
\* clock and whether the store accepts the write
FileResult(f, t, write_ok) ==
    LET extractor == ExtractorFor(f)
        extracted == extracted_of[data_dir][f]
        df        == transform(extractor, extracted, t) IN
    IF ~extracted.ok THEN [status |-> "extract_error", extracted |-> <<>>, df |-> <<>>]
    ELSE IF ~df.ok THEN [status |-> "transform_error", extracted |-> extracted.rows, df |-> <<>>]
    ELSE IF ~write_ok THEN [status |-> "load_error", extracted |-> extracted.rows, df |-> df.rows]
    ELSE [status |-> "loaded", extracted |-> extracted.rows, df |-> df.rows]

\* ProcessFile with a write that commits the first row only
ProcessFile_first_row(r, f, write_ok) ==
    /\ task_state[r]["extract_load_raw"] = "running"
    /\ f \in job[r].todo
    /\ LET res == FileResult(f, now, write_ok) IN
        /\ raw_transactions' = IF res.status = "loaded"
                               THEN to_sql_transactions(raw_transactions, SubSeq(res.df, 1, 1))
                               ELSE raw_transactions
        /\ job' = [job EXCEPT ![r].todo = @ \ {f},
                              ![r].results[f] = res,
                              ![r].total_loaded = IF res.status = "loaded" THEN @ + Len(res.df) ELSE @]
    /\ UNCHANGED <<data_dir, now, mart_anomalies, mart_anomalies_id_seq, mart_forecasts,
                   task_state, try_number>>
    /\ response' = NoResponse

\* one iteration of the loop, lines 61-98: extract, transform, load; any
\* exception is logged and the loop continues with the next file
ProcessFile(r, f, write_ok) ==
    /\ task_state[r]["extract_load_raw"] = "running"
    /\ f \in job[r].todo
    /\ LET res == FileResult(f, now, write_ok) IN
        /\ raw_transactions' = IF res.status = "loaded"
                               THEN to_sql_transactions(raw_transactions, res.df)
                               ELSE raw_transactions
        /\ job' = [job EXCEPT ![r].todo = @ \ {f},
                              ![r].results[f] = res,
                              ![r].total_loaded = IF res.status = "loaded" THEN @ + Len(res.df) ELSE @]
    /\ UNCHANGED <<data_dir, now, mart_anomalies, mart_anomalies_id_seq, mart_forecasts,
                   task_state, try_number>>
    /\ response' = NoResponse

\* returns with the exception of a file raised again after the loop
returns_unless_failed(results) ==
    \A f \in DOMAIN results : results[f].status \notin {"extract_error", "transform_error", "load_error"}

\* whether the callable returns once the loop is over: the exception of a
\* file was logged inside the loop (lines 96-98), nothing is raised again
returns(results) == TRUE

\* return total_loaded, lines 100-101
ExtractReturn(r) ==
    /\ job[r].todo = {}
    /\ Finish(r, "extract_load_raw", returns(job[r].results))
    /\ UNCHANGED <<data_dir, now, stores, job>>
    /\ response' = NoResponse

(* ------------------------------------------------------------------ *)
(* The tasks between extraction and the analyses                       *)
(* ------------------------------------------------------------------ *)

\* run_dbt_tests: raises when dbt exits with a non-zero return code
run_dbt_tests(r) ==
    /\ \E returncode \in {0, 1} : Attempt(r, "dbt_run_tests", returncode = 0)
    /\ UNCHANGED <<data_dir, now, stores, job>>
    /\ response' = NoResponse

\* run_dbt_build: raises when dbt exits with a non-zero return code
run_dbt_build(r) ==
    /\ \E returncode \in {0, 1} : Attempt(r, "dbt_build", returncode = 0)
    /\ UNCHANGED <<data_dir, now, stores, job>>
    /\ response' = NoResponse

\* export_parquet: reads the tables into Parquet files; the error of a table
\* is logged and the loop continues
export_parquet(r) ==
    /\ Attempt(r, "export_parquet", TRUE)
    /\ UNCHANGED <<data_dir, now, stores, job>>
    /\ response' = NoResponse

\* load_columnar: loads the Parquet files into DuckDB
load_columnar(r) ==
    /\ Attempt(r, "load_columnar", TRUE)
    /\ UNCHANGED <<data_dir, now, stores, job>>
    /\ response' = NoResponse

\* the three checks of run_ge_suites over raw.transactions
null_count == Cardinality({i \in 1..Len(raw_transactions) : raw_transactions[i].posted_at = NoneDate})

duplicate_count ==
    Cardinality({id \in {raw_transactions[i].txn_id : i \in 1..Len(raw_transactions)} :
                    Cardinality({i \in 1..Len(raw_transactions) : raw_transactions[i].txn_id = id}) > 1})

invalid_amounts == Cardinality({i \in 1..Len(raw_transactions) : raw_transactions[i].amount = 0})

\* run_ge_suites: raises when a check does not pass
run_ge_suites(r) ==
    /\ CanStart(r, "run_ge_suites")
    /\ LET checks_passed == (IF null_count = 0 THEN 1 ELSE 0) + (IF duplicate_count = 0 THEN 1 ELSE 0)
                            + (IF invalid_amounts = 0 THEN 1 ELSE 0)
           total_checks == 3 IN
       Attempt(r, "run_ge_suites", ~(checks_passed < total_checks))
    /\ UNCHANGED <<data_dir, now, stores, job>>
    /\ response' = NoResponse

\* notify_summary: counts the tables and logs the summary
notify_summary(r) ==
    /\ Attempt(r, "notify", TRUE)
    /\ UNCHANGED <<data_dir, now, stores, job>>
    /\ response' = NoResponse

(* ------------------------------------------------------------------ *)
(* staging.transactions, the view the analyses read                    *)
(* ------------------------------------------------------------------ *)

\* days from 0001-01-01 to the date
DayNumber(dt) ==
    LET y == dt.y - 1 IN
    365 * y + (y \div 4) - (y \div 100) + (y \div 400)
    + Cardinality({<<m, d>> \in (1..12) \X (1..31) : m < dt.m /\ d <= DaysInMonth(dt.y, m)})
    + dt.d

\* months from year 0 to the month of the date
MonthNumber(dt) == 12 * dt.y + (dt.m - 1)

\* one row of the view: the raw row with its derived columns
StagingRow(t) ==
    [txn_id |-> t.txn_id, posted_at |-> t.posted_at, amount |-> t.amount,
     category_norm |-> t.category_raw, merchant_norm |-> t.merchant_raw,
     abs_amount |-> Abs(t.amount), month |-> MonthNumber(t.posted_at)]

staging_transactions == [i \in 1..Len(raw_transactions) |-> StagingRow(raw_transactions[i])]

\* Series.unique(): the values in order of first appearance
RECURSIVE Unique(_)
Unique(s) ==
    IF s = <<>> THEN <<>>
    ELSE LET rest == Unique(SubSeq(s, 1, Len(s) - 1)) IN
         IF \E i \in 1..Len(rest) : rest[i] = s[Len(s)] THEN rest ELSE Append(rest, s[Len(s)])

RECURSIVE Sum(_)
Sum(s) == IF s = <<>> THEN 0 ELSE Head(s) + Sum(Tail(s))

RECURSIVE Concat(_)
Concat(ss) == IF ss = <<>> THEN <<>> ELSE Head(ss) \o Concat(Tail(ss))

\* the orders in which a set can be iterated
Orders(S) == {o \in [1..Cardinality(S) -> S] : \A x \in S : \E i \in DOMAIN o : o[i] = x}

(* ------------------------------------------------------------------ *)
(* run_anomaly_detect                                                  *)
(* ------------------------------------------------------------------ *)

\* the first query: the expenses of the last 30 days
recent_expenses ==
    SelectSeq(staging_transactions,
              LAMBDA t : t.amount < 0 /\ DayNumber(t.posted_at) >= DayNumber(Today) - 30)

\* df[df['category_norm'] == category]: no row equals a null category
category_rows(df, category) ==
    IF category = None THEN <<>> ELSE SelectSeq(df, LAMBDA t : t.category_norm = category)

Anomaly(txn_id, anomaly_type, severity, driver, remediation_hint) ==
    [txn_id |-> txn_id, anomaly_type |-> anomaly_type, severity |-> severity,
     driver |-> driver, remediation_hint |-> remediation_hint]

\* statistical_outliers with z >= 2 for z > 2
statistical_outliers_inclusive(category_data) ==
    LET amounts == [i \in 1..Len(category_data) |-> category_data[i].abs_amount]
        n == Len(amounts)
        S == Sum(amounts)
        Q == Sum([i \in 1..n |-> amounts[i] * amounts[i]])
        var == n * Q - S * S
        dev(i) == (n * amounts[i] - S) * (n * amounts[i] - S)
        anomaly_indices == SelectSeq([i \in 1..n |-> i], LAMBDA i : dev(i) >= 4 * var) IN
    IF n < 3 \/ var <= 0 THEN <<>>
    ELSE [k \in 1..Len(anomaly_indices) |->
            Anomaly(category_data[anomaly_indices[k]].txn_id, "Statistical Outlier",
                    IF dev(anomaly_indices[k]) > 9 * var THEN "High" ELSE "Medium",
                    "Z-score outlier", "Verify transaction amount and necessity")]

\* statistical_outliers with High for every z > 2
statistical_outliers_high_above_2(category_data) ==
    LET amounts == [i \in 1..Len(category_data) |-> category_data[i].abs_amount]
        n == Len(amounts)
        S == Sum(amounts)
        Q == Sum([i \in 1..n |-> amounts[i] * amounts[i]])
        var == n * Q - S * S
        dev(i) == (n * amounts[i] - S) * (n * amounts[i] - S)
        anomaly_indices == SelectSeq([i \in 1..n |-> i], LAMBDA i : dev(i) > 4 * var) IN
    IF n < 3 \/ var <= 0 THEN <<>>
    ELSE [k \in 1..Len(anomaly_indices) |->
            Anomaly(category_data[anomaly_indices[k]].txn_id, "Statistical Outlier",
                    IF dev(anomaly_indices[k]) > 4 * var THEN "High" ELSE "Medium",
                    "Z-score outlier", "Verify transaction amount and necessity")]

\* the outliers of one category. With n amounts of sum S and sum of squares
\* Q, std > 0 is n*Q - S*S > 0 and |x - mean| / std > k is
\* (n*x - S)^2 > k*k * (n*Q - S*S)
statistical_outliers(category_data) ==
    LET amounts == [i \in 1..Len(category_data) |-> category_data[i].abs_amount]
        n == Len(amounts)
        S == Sum(amounts)
        Q == Sum([i \in 1..n |-> amounts[i] * amounts[i]])
        var == n * Q - S * S
        dev(i) == (n * amounts[i] - S) * (n * amounts[i] - S)
        anomaly_indices == SelectSeq([i \in 1..n |-> i], LAMBDA i : dev(i) > 4 * var) IN
    IF n < 3 \/ var <= 0 THEN <<>>
    ELSE [k \in 1..Len(anomaly_indices) |->
            Anomaly(category_data[anomaly_indices[k]].txn_id, "Statistical Outlier",
                    IF dev(anomaly_indices[k]) > 9 * var THEN "High" ELSE "Medium",
                    "Z-score outlier", "Verify transaction amount and necessity")]

\* the second query: the merchants seen more than 30 days ago
all_merchants ==
    {staging_transactions[i].merchant_norm :
        i \in {j \in 1..Len(staging_transactions) :
                  DayNumber(staging_transactions[j].posted_at) < DayNumber(Today) - 30}}

novel_merchants(df) == {df[i].merchant_norm : i \in 1..Len(df)} \ all_merchants

novel_merchant_anomalies(df, merchant) ==
    LET merchant_txns == SelectSeq(df, LAMBDA t : t.merchant_norm = merchant) IN
    [k \in 1..Len(merchant_txns) |->
        Anomaly(merchant_txns[k].txn_id, "Novel Merchant", "Medium",
                "Merchant not seen in last 90 days",
                "Review transaction and categorize appropriately")]

\* the list `anomalies`, the novel merchants visited in the given order
detect_anomalies(df, order) ==
    LET categories == Unique([i \in 1..Len(df) |-> df[i].category_norm]) IN
    Concat([c \in 1..Len(categories) |-> statistical_outliers(category_rows(df, categories[c]))])
    \o Concat([m \in 1..Len(order) |-> novel_merchant_anomalies(df, order[m])])

\* a nullable timestamp column: NULL, or the timestamp in a 1-tuple
NullTimestamp == <<>>

Timestamp(t) == <<t>>

\* the rows to_sql appends: the columns of anomalies_df, the other columns at
\* their defaults
anomalies_df(anomalies, start_id, flagged_at) ==
    [k \in 1..Len(anomalies) |->
        [id |-> start_id + k - 1, txn_id |-> anomalies[k].txn_id,
         anomaly_type |-> anomalies[k].anomaly_type, severity |-> anomalies[k].severity,
         driver |-> anomalies[k].driver, remediation_hint |-> anomalies[k].remediation_hint,
         flagged_at |-> flagged_at,
         acknowledged |-> FALSE, acknowledged_at |-> NullTimestamp, acknowledged_by |-> None]]

\* to_sql with if_exists = 'replace'
to_sql_anomalies_replace(table, df) == df

\* anomalies_df.to_sql('mart_anomalies', if_exists = 'append')
to_sql_anomalies(table, df) == table \o df

run_anomaly_detect(r) ==
    /\ CanStart(r, "run_anomaly_detect")
    /\ \E order \in Orders(novel_merchants(recent_expenses)) :
        LET anomalies == detect_anomalies(recent_expenses, order)
            result    == mart_anomalies_id_seq + 1
            start_id  == result - Len(anomalies) + 1 IN
        IF anomalies = <<>>
        THEN UNCHANGED <<mart_anomalies, mart_anomalies_id_seq>>
        ELSE /\ mart_anomalies_id_seq' = result
             /\ mart_anomalies' = to_sql_anomalies(mart_anomalies,
                                                   anomalies_df(anomalies, start_id, now))
    /\ Attempt(r, "run_anomaly_detect", TRUE)
    /\ UNCHANGED <<data_dir, now, raw_transactions, mart_forecasts, job>>
    /\ response' = NoResponse

(* ------------------------------------------------------------------ *)
(* run_forecasts                                                       *)
(* ------------------------------------------------------------------ *)

\* the query: per month and category of the last 6 months with at least 3
\* expenses, the sum of the expenses
monthly_totals ==
    LET rows == SelectSeq(staging_transactions,
                          LAMBDA t : t.amount < 0 /\ t.month >= MonthNumber(Today) - 6)
        groups == {<<rows[i].month, rows[i].category_norm>> : i \in 1..Len(rows)}
        of(g) == SelectSeq(rows, LAMBDA t : t.month = g[1] /\ t.category_norm = g[2]) IN
    {[month |-> g[1], category_norm |-> g[2],
      expenses |-> Sum([i \in 1..Len(of(g)) |-> Abs(of(g)[i].amount)])] :
        g \in {h \in groups : Len(of(h)) >= 3}}

\* run_forecasts: np is not imported in the DAG file, so the first category
\* with two monthly totals raises NameError at np.std before any forecast
\* is appended; without such a category there is nothing to insert
run_forecasts(r) ==
    /\ CanStart(r, "run_forecasts")
    /\ LET df == monthly_totals IN
       Attempt(r, "run_forecasts",
               ~\E category \in {g.category_norm : g \in df} \ {None} :
                   Cardinality({g \in df : g.category_norm = category}) >= 2)
    /\ UNCHANGED <<data_dir, now, stores, job>>
    /\ response' = NoResponse

(* ------------------------------------------------------------------ *)
(* The serving layer                                                   *)
(* ------------------------------------------------------------------ *)

\* GET /summary
get_summary ==
    /\ response' = [endpoint |-> "summary", status_code |-> 200,
                    total_transactions |-> Len(raw_transactions),
                    total_anomalies |-> Len(mart_anomalies),
                    total_forecasts |-> Len(mart_forecasts)]
    /\ UNCHANGED <<data_dir, now, stores, task_state, try_number, job>>

\* the anomaly ids a client asks for
RequestIds == {1, 7}

\* get_current_user
demo_user == "demo_user"

\* the UPDATE of acknowledge_anomaly (the API names the anomaly table
\* marts.fct_anomalies)
update_anomalies(table, anomaly_id, acknowledged, user_id, current_timestamp) ==
    [k \in 1..Len(table) |->
        IF table[k].id = anomaly_id
        THEN [table[k] EXCEPT !.acknowledged = acknowledged,
                              !.acknowledged_at = Timestamp(current_timestamp),
                              !.acknowledged_by = user_id]
        ELSE table[k]]

\* POST /anomalies/acknowledge: the HTTPException(404) of rowcount = 0 is
\* raised inside the try block and answered by its except clause with 500
acknowledge_anomaly(request) ==
    /\ LET rowcount == Cardinality({k \in 1..Len(mart_anomalies) :
                                       mart_anomalies[k].id = request.anomaly_id}) IN
       /\ mart_anomalies' = update_anomalies(mart_anomalies, request.anomaly_id,
                                             request.acknowledged, demo_user, now)
       /\ response' = [endpoint |-> "acknowledge", status_code |-> IF rowcount = 0 THEN 500 ELSE 200,
                       total_transactions |-> 0, total_anomalies |-> 0, total_forecasts |-> 0]
    /\ UNCHANGED <<data_dir, now, raw_transactions, mart_anomalies_id_seq, mart_forecasts,
                   task_state, try_number, job>>

(* ------------------------------------------------------------------ *)
(* SpecExtract: runs of the extract/load task, overlapping or one      *)
(* after the other, over a drawn directory; the store can refuse a     *)
(* write                                                               *)
(* ------------------------------------------------------------------ *)

InitExtract == InitWith(DrawnDirs)

NextExtract ==
    \/ \E r \in Runs : TriggerOverlapping(r)
    \/ \E r \in Runs : \E f \in csv_files(data_dir), write_ok \in BOOLEAN : ProcessFile(r, f, write_ok)
    \/ \E r \in Runs : ExtractReturn(r)

SpecExtract == InitExtract /\ [][NextExtract]_vars

(* ------------------------------------------------------------------ *)
(* Spec: the scheduled runs of the whole pipeline, one after the       *)
(* other, over files that load into a store that is up, with the       *)
(* serving layer answering requests in between                         *)
(* ------------------------------------------------------------------ *)

Init == InitWith(PipelineDirs)

Next ==
    \/ \E r \in Runs : TriggerScheduled(r)
    \/ \E r \in Runs : \E f \in csv_files(data_dir) : ProcessFile(r, f, TRUE)
    \/ \E r \in Runs : ExtractReturn(r)
    \/ \E r \in Runs : \E t \in Tasks : SkipDownstream(r, t)
    \/ \E r \in Runs : run_dbt_tests(r)
    \/ \E r \in Runs : run_dbt_build(r)
    \/ \E r \in Runs : export_parquet(r)
    \/ \E r \in Runs : load_columnar(r)
    \/ \E r \in Runs : run_ge_suites(r)
    \/ \E r \in Runs : run_anomaly_detect(r)
    \/ \E r \in Runs : run_forecasts(r)
    \/ \E r \in Runs : notify_summary(r)
    \/ get_summary
    \/ \E anomaly_id \in RequestIds, acknowledged \in BOOLEAN :
           acknowledge_anomaly([anomaly_id |-> anomaly_id, acknowledged |-> acknowledged])

Spec == Init /\ [][Next]_vars

(* ------------------------------------------------------------------ *)
(* SpecDetect: one run of the pipeline up to the anomaly detector,     *)
(* over an export of the expenses of one category                      *)
(* ------------------------------------------------------------------ *)

InitDetect == InitWith(DetectDirs)

NextDetect ==
    \/ TriggerScheduled(1)
    \/ \E f \in csv_files(data_dir) : ProcessFile(1, f, TRUE)
    \/ ExtractReturn(1)
    \/ run_dbt_tests(1)
    \/ run_dbt_build(1)
    \/ export_parquet(1)
    \/ run_anomaly_detect(1)

SpecDetect == InitDetect /\ [][NextDetect]_vars

(* ------------------------------------------------------------------ *)
(* SpecRows: one run of the extract/load task over an export of one    *)
(* row or two                                                          *)
(* ------------------------------------------------------------------ *)

InitRows == InitWith(RowDirs)

NextRows ==
    \/ TriggerScheduled(1)
    \/ \E f \in csv_files(data_dir) : ProcessFile(1, f, TRUE)
    \/ ExtractReturn(1)

SpecRows == InitRows /\ [][NextRows]_vars

(* ------------------------------------------------------------------ *)
(* Properties                                                          *)
(* ------------------------------------------------------------------ *)

Extract == "extract_load_raw"

\* the loop of run r has reached file f
Processed(r, f) == f \in DOMAIN job[r].results /\ job[r].results[f].status # "pending"

\* run r processes file f in this step
Processes(r, f) ==
    /\ f \in DOMAIN job[r].results
    /\ job[r].results[f].status = "pending"
    /\ job'[r].results[f].status # "pending"

StatusOf(r, f) == IF f \in DOMAIN job[r].results THEN job[r].results[f].status ELSE "pending"

\* transform returned a DataFrame for file f in run r
HasDf(r, f) == StatusOf(r, f) \in {"loaded", "load_error"}

DfOf(r, f) == job[r].results[f].df

identities(table) == {table[i].txn_id : i \in 1..Len(table)}

\* what a record says about its transaction
content(t) == <<t.institution, t.posted_at, t.amount, t.merchant_raw, t.description>>

IsPrefix(s, t) == Len(s) <= Len(t) /\ \A i \in 1..Len(s) : s[i] = t[i]

Files == csv_files(data_dir)

(* ---- C1 ---------------------------------------------------------- *)

C3_IdentityIndependentOfBatch ==
    \A r \in Runs, q \in Runs : \A f \in Files, g \in Files :
        (HasDf(r, f) /\ HasDf(q, g)) =>
            /\ f = g => /\ Len(DfOf(r, f)) = Len(DfOf(q, g))
                        /\ \A k \in 1..Len(DfOf(r, f)) : DfOf(r, f)[k].txn_id = DfOf(q, g)[k].txn_id
            /\ \A k \in 1..Len(DfOf(r, f)), l \in 1..Len(DfOf(q, g)) :
                  content(DfOf(r, f)[k]) = content(DfOf(q, g)[l])
                  => DfOf(r, f)[k].txn_id = DfOf(q, g)[l].txn_id

\* the same file was extracted under two batch ids and two created_at stamps
C3_TwoBatches ==
    \E r \in Runs, q \in Runs, f \in Files :
        /\ HasDf(r, f) /\ HasDf(q, f)
        /\ Len(DfOf(r, f)) > 0
        /\ DfOf(r, f)[1].import_batch_id # DfOf(q, f)[1].import_batch_id
        /\ DfOf(r, f)[1].created_at # DfOf(q, f)[1].created_at

(* ---- C4 ---------------------------------------------------------- *)

\* C4: the records one extraction of a file emits have pairwise distinct
\* identities.
C4_DistinctIdentitiesInOneExtraction ==
    \A r \in Runs : \A f \in Files :
        HasDf(r, f) => \A i, j \in 1..Len(DfOf(r, f)) :
                          DfOf(r, f)[i].txn_id = DfOf(r, f)[j].txn_id => i = j

(* ---- C5 ---------------------------------------------------------- *)

\* the header of file f lacks a column that maps to the canonical field
Lacks(f, field) == field \notin Rename(data_dir[f].header, ExtractorFor(f).column_mapping)

\* C5: when the header of a file lacks one of posted_at, amount, merchant_raw
\* and description after the column mapping, the step that processes the file
\* ends in the error of extract with no row standardized, and writes nothing
\* to the store.
C5_MissingColumnAbortsFile ==
    [][\A r \in Runs : \A f \in Files :
          (/\ Processes(r, f)
           /\ \E field \in {"posted_at", "amount", "merchant_raw", "description"} : Lacks(f, field))
          => /\ job'[r].results[f].status = "extract_error"
             /\ job'[r].results[f].extracted = <<>>
             /\ job'[r].total_loaded = job[r].total_loaded
             /\ raw_transactions' = raw_transactions]_vars

\* a file with rows and without its description column was rejected, next to
\* a file that loaded
C5_FileRejected ==
    \E r \in Runs, f \in Files, g \in Files :
        /\ Lacks(f, "description") /\ Len(data_dir[f].rows) > 0
        /\ StatusOf(r, f) = "extract_error"
        /\ StatusOf(r, g) = "loaded"
        /\ identities(raw_transactions) = identities(DfOf(r, g))

(* ---- C6 ---------------------------------------------------------- *)

\* the rows whose date or amount does not parse
BadRows == {RowBadDate, RowBadAmount, RowNoAmount}

GoodRows(rows) == SelectSeq(rows, LAMBDA row : row \notin BadRows)

\* C6: extract emits the rows of a file whose date and amount parse, in
\* order, and no other; what does not parse or is missing standardizes to
\* 0.0 (amount) and None (date); no record of such a row is in the store.
C6_BadRowsDropped ==
    /\ \A r \in Runs : \A f \in Files :
          (Processed(r, f) /\ StatusOf(r, f) # "extract_error") =>
              LET good == GoodRows(data_dir[f].rows)
                  extracted == job[r].results[f].extracted IN
              /\ Len(extracted) = Len(good)
              /\ \A k \in 1..Len(good) : extracted[k].description = Strip(good[k].description.v)
    /\ \A i \in 1..Len(raw_transactions) :
          raw_transactions[i].description \notin {Join(row.description.v) : row \in BadRows}
    /\ standardize_amount(RowBadAmount.amount, FALSE) = 0
    /\ standardize_amount(RowNoAmount.amount, FALSE) = 0
    /\ standardize_date(RowBadDate.posted_at) = NoneDate

\* a file with a row that does not parse and a row that does was loaded
C6_PartlyBadFileLoaded ==
    \E r \in Runs, f \in Files :
        /\ StatusOf(r, f) = "loaded"
        /\ \E i, j \in 1..Len(data_dir[f].rows) :
              data_dir[f].rows[i] \in BadRows /\ data_dir[f].rows[j] \notin BadRows
        /\ Len(raw_transactions) = 1

(* ---- C7 ---------------------------------------------------------- *)

PartOfRunInStore(r, f, g) ==
    /\ task_state[r][Extract] = "running"
    /\ StatusOf(r, f) = "loaded" /\ Len(DfOf(r, f)) > 0
    /\ g \in job[r].todo /\ Len(data_dir[g].rows) > 0
    /\ \A i \in 1..Len(raw_transactions) :
          raw_transactions[i].institution # ExtractorFor(g).institution

\* C8 as claimed: no read of the serving layer happens while the store holds
\* the records of some files of a run in progress without those of the others.
C8_ReadSeesAllOrNothingOfRun ==
    response.endpoint = "summary" =>
        ~\E r \in Runs, f \in Files, g \in Files : PartOfRunInStore(r, f, g)

\* C8, amended: a read sees the records of whole files only: the store holds
\* every record of every file a run has loaded, and the count a read reports
\* is the number of records of such files.
C8_ReadSeesWholeFiles ==
    /\ \A r \in Runs : \A f \in Files :
          StatusOf(r, f) = "loaded" => identities(DfOf(r, f)) \subseteq identities(raw_transactions)
    /\ \A i \in 1..Len(raw_transactions) :
          \E r \in Runs, f \in Files :
              /\ StatusOf(r, f) = "loaded"
              /\ raw_transactions[i].txn_id \in identities(DfOf(r, f))
    /\ response.endpoint = "summary" => response.total_transactions = Len(raw_transactions)

\* a read between the two files of a run
C8_ReadBetweenFiles ==
    /\ response.endpoint = "summary"
    /\ response.total_transactions > 0
    /\ \E r \in Runs, f \in Files, g \in Files :
          /\ task_state[r][Extract] = "running"
          /\ StatusOf(r, f) = "loaded" /\ Len(DfOf(r, f)) > 1
          /\ g \in job[r].todo

(* ---- C9 ---------------------------------------------------------- *)

Analyses == {"run_anomaly_detect", "run_forecasts"}

\* C9: a step in which anomaly detection or forecasting of a run starts (its
\* task instance leaves its state for one other than upstream_failed, or the
\* anomaly table grows) is taken with the extract/load, test and build tasks
\* of that run in success and every file of the run processed.
C9_AnalysesAfterExtractTestsBuild ==
    [][/\ \A r \in Runs : \A t \in Analyses :
             (/\ task_state'[r][t] # task_state[r][t]
              /\ task_state'[r][t] # "upstream_failed")
             => /\ \A u \in {"extract_load_raw", "dbt_run_tests", "dbt_build"} :
                       task_state[r][u] = "success"
                /\ job[r].todo = {}
       /\ Len(mart_anomalies') > Len(mart_anomalies)
             => \E r \in Runs :
                   /\ task_state'[r]["run_anomaly_detect"] # task_state[r]["run_anomaly_detect"]
                   /\ job[r].todo = {}
                   /\ task_state[r]["extract_load_raw"] = "success"]_vars

\* both analyses of a run ran, and anomaly detection wrote its records
C9_AnalysesRan ==
    \E r \in Runs :
        /\ task_state[r]["run_anomaly_detect"] = "success"
        /\ task_state[r]["run_forecasts"] \in {"success", "up_for_retry", "failed"}
        /\ Len(mart_anomalies) > 0

(* ---- C10 --------------------------------------------------------- *)

\* the columns of an anomaly record the acknowledgement does not write
Flagged(a) == <<a.id, a.txn_id, a.anomaly_type, a.severity, a.driver, a.remediation_hint,
                a.flagged_at>>

\* C10: every step keeps every stored transaction, anomaly and forecast
\* record at its place with its field values; a step that changes an anomaly
\* record is the acknowledgement, and changes the acknowledgement columns
\* only.
C10_StoresAppendOnly ==
    [][/\ IsPrefix(raw_transactions, raw_transactions')
       /\ IsPrefix(mart_forecasts, mart_forecasts')
       /\ Len(mart_anomalies') >= Len(mart_anomalies)
       /\ \A k \in 1..Len(mart_anomalies) :
             /\ Flagged(mart_anomalies'[k]) = Flagged(mart_anomalies[k])
             /\ mart_anomalies'[k] # mart_anomalies[k]
                => /\ response'.endpoint = "acknowledge"
                   /\ Len(mart_anomalies') = Len(mart_anomalies)
                   /\ raw_transactions' = raw_transactions]_vars

\* a second run of extraction and anomaly detection added records to the
\* ones of the first run, one of which was acknowledged before it
C10_SecondRunAfterAcknowledge ==
    /\ task_state[2]["run_anomaly_detect"] = "success"
    /\ Len(raw_transactions) > 0
    /\ \E k, l \in 1..Len(mart_anomalies) :
          /\ k < l
          /\ mart_anomalies[k].acknowledged /\ mart_anomalies[k].acknowledged_at = Timestamp(1)
          /\ mart_anomalies[k].flagged_at = 1
          /\ mart_anomalies[l].flagged_at = 2

(* ---- C11 --------------------------------------------------------- *)

\* C11: an acknowledgement leaves every anomaly record that was acknowledged
\* before it, and is acknowledged after it, exactly as it was (acknowledged,
\* acknowledged_by and acknowledged_at included).
C11_ReacknowledgeKeepsRecord ==
    [][response'.endpoint = "acknowledge" =>
          \A k \in 1..Len(mart_anomalies) :
              (mart_anomalies[k].acknowledged /\ mart_anomalies'[k].acknowledged)
              => mart_anomalies'[k] = mart_anomalies[k]]_vars

(* ---- C12 --------------------------------------------------------- *)

Detect == "run_anomaly_detect"

\* the stored expenses of the trailing 30 days in the category
TrailingExpenses(category) ==
    SelectSeq(raw_transactions,
              LAMBDA t : /\ t.amount < 0
                         /\ DayNumber(t.posted_at) >= DayNumber(Today) - 30
                         /\ t.category_raw = category)

AbsAmounts(obs) == [i \in 1..Len(obs) |-> IF obs[i].amount < 0 THEN 0 - obs[i].amount ELSE obs[i].amount]

\* n times the deviation of x from the mean of xs
Deviation(x, xs) == Len(xs) * x - Sum(xs)

\* n^3 times the population variance of xs
SquaredDeviations(xs) == Sum([i \in 1..Len(xs) |-> Deviation(xs[i], xs) * Deviation(xs[i], xs)])

\* the z-score of x among xs exceeds k: |x - mean| / std > k, squared and
\* multiplied by n^3 * std^2
ZExceeds(k, x, xs) == Len(xs) * Deviation(x, xs) * Deviation(x, xs) > k * k * SquaredDeviations(xs)

\* the severities of the records of the type the anomaly table holds for the
\* transaction, oldest first
Severities(txn_id, anomaly_type) ==
    LET flagged == SelectSeq(mart_anomalies,
                             LAMBDA a : a.txn_id = txn_id /\ a.anomaly_type = anomaly_type) IN
    [k \in 1..Len(flagged) |-> flagged[k].severity]

Categories == {raw_transactions[i].category_raw : i \in 1..Len(raw_transactions)}

\* C12: after the detector ran, every trailing expense of a category with at
\* least 3 trailing expenses and a nonzero standard deviation has one High
\* outlier record when its z-score exceeds 3, one Medium outlier record when
\* it exceeds 2 but not 3, and no outlier record otherwise.
C12_OutlierSeverityByZScore ==
    task_state[1][Detect] = "success" =>
        \A category \in Categories :
            LET obs == TrailingExpenses(category)
                xs  == AbsAmounts(obs) IN
            (Len(obs) >= 3 /\ SquaredDeviations(xs) > 0) =>
                \A i \in 1..Len(obs) :
                    Severities(obs[i].txn_id, "Statistical Outlier")
                    = IF ZExceeds(3, xs[i], xs) THEN <<"High">>
                      ELSE IF ZExceeds(2, xs[i], xs) THEN <<"Medium">>
                      ELSE <<>>

\* the detector flagged a High outlier among at least 3 observations that
\* are not all equal
C12_HighOutlierFlagged ==
    /\ task_state[1][Detect] = "success"
    /\ \E k \in 1..Len(mart_anomalies) :
          /\ mart_anomalies[k].anomaly_type = "Statistical Outlier"
          /\ mart_anomalies[k].severity = "High"
    /\ Len(raw_transactions) >= 3

(* ---- C13 --------------------------------------------------------- *)

DaysAgo(t) == DayNumber(Today) - DayNumber(t.posted_at)

Merchants == {raw_transactions[i].merchant_raw : i \in 1..Len(raw_transactions)}

StoredOf(merchant) == SelectSeq(raw_transactions, LAMBDA t : t.merchant_raw = merchant)

\* the merchant has a stored transaction between `first` and `last` days ago
SeenDaysAgo(merchant, first, last) ==
    \E i \in 1..Len(raw_transactions) :
        /\ raw_transactions[i].merchant_raw = merchant
        /\ DaysAgo(raw_transactions[i]) >= first
        /\ DaysAgo(raw_transactions[i]) <= last

\* C13: after the detector ran, every trailing expense of a merchant seen in
\* the trailing 30 days and not in the 90 days before them has exactly one
\* Novel Merchant record, of severity Medium, and the transactions of a
\* merchant seen in those 90 days have none.
C13_NovelMerchantFlaggedOnce ==
    task_state[1][Detect] = "success" =>
        \A merchant \in Merchants :
            LET txns == StoredOf(merchant) IN
            /\ (SeenDaysAgo(merchant, 0, 30) /\ ~SeenDaysAgo(merchant, 31, 120)) =>
                   \A i \in 1..Len(txns) :
                       (txns[i].amount < 0 /\ DaysAgo(txns[i]) <= 30)
                       => Severities(txns[i].txn_id, "Novel Merchant") = <<"Medium">>
            /\ SeenDaysAgo(merchant, 31, 120) =>
                   \A i \in 1..Len(txns) : Severities(txns[i].txn_id, "Novel Merchant") = <<>>

(* ---- C14 --------------------------------------------------------- *)

\* the absolute amounts of the stored trailing expenses of the category
Observed == AbsAmounts(TrailingExpenses("Dining"))

\* the outlier severities of the i-th stored trailing expense of the category
OutlierSeverities(i) == Severities(TrailingExpenses("Dining")[i].txn_id, "Statistical Outlier")

\* C14 as claimed: among the observations 20, 21, 19, 20, 20, 300 the
\* detector flags 300 Medium, and with 500 for 300 it flags 500 High.
C14_FiveHundredIsHigh ==
    task_state[1][Detect] = "success" =>
        /\ Observed = <<20, 21, 19, 20, 20, 300>> => OutlierSeverities(6) = <<"Medium">>
        /\ Observed = <<20, 21, 19, 20, 20, 500>> => OutlierSeverities(6) = <<"High">>

\* C14, amended: among the observations 20, 21, 19, 20, 20, 300 the detector
\* flags 300 Medium; with 500 for 300 it flags 500 Medium, its z-score
\* exceeding 2 and not 3; with 500 next to 300 it flags 500 Medium and 300
\* not at all; it flags none of the other observations.
C14_FiveHundredIsMedium ==
    task_state[1][Detect] = "success" =>
        /\ Observed \in {<<20, 21, 19, 20, 20, 300>>, <<20, 21, 19, 20, 20, 500>>} =>
              /\ OutlierSeverities(6) = <<"Medium">>
              /\ ZExceeds(2, Observed[6], Observed) /\ ~ZExceeds(3, Observed[6], Observed)
              /\ \A i \in 1..5 : OutlierSeverities(i) = <<>>
        /\ Observed = <<20, 21, 19, 20, 20, 300, 500>> =>
              /\ OutlierSeverities(7) = <<"Medium">>
              /\ \A i \in 1..6 : OutlierSeverities(i) = <<>>

\* the detector ran over the six observations with 500
C14_FiveHundredObserved ==
    /\ task_state[1][Detect] = "success"
    /\ Observed = <<20, 21, 19, 20, 20, 500>>
    /\ \E k \in 1..Len(mart_anomalies) : mart_anomalies[k].anomaly_type = "Statistical Outlier"

(* ---- C16 --------------------------------------------------------- *)

\* the forecaster of run r ran (and returned or raised)
Forecasted(r) == task_state[r]["run_forecasts"] \in {"success", "up_for_retry", "failed"}

\* the stored expenses of the category in the trailing 6 months
ExpensesOf(category) ==
    SelectSeq(raw_transactions,
              LAMBDA t : /\ t.amount < 0
                         /\ t.category_raw = category
                         /\ MonthNumber(t.posted_at) >= MonthNumber(Today) - 6)

\* the months of the trailing 6 the category has a monthly total for
MonthsOf(category) ==
    {MonthNumber(ExpensesOf(category)[i].posted_at) : i \in 1..Len(ExpensesOf(category))}

\* the forecast records of the category for the horizon
ForecastsOf(category, horizon) ==
    SelectSeq(mart_forecasts, LAMBDA fc : fc.category_norm = category /\ fc.horizon = horizon)

\* C16: once the forecaster of a run ran, every category with at least 2
\* monthly totals has one forecast record for each of the horizons 1, 2, 3,
\* and a category with fewer has none.
C16_OneForecastPerHorizon ==
    \A r \in Runs :
        Forecasted(r) =>
            \A category \in Categories \ {None} : \A horizon \in 1..3 :
                Len(ForecastsOf(category, horizon))
                    = (IF Cardinality(MonthsOf(category)) >= 2 THEN 1 ELSE 0)

(* ---- C17 --------------------------------------------------------- *)

\* the monthly total of the category for the month, in cents
MonthlyTotal(category, month) ==
    LET of == SelectSeq(ExpensesOf(category), LAMBDA t : MonthNumber(t.posted_at) = month) IN
    Sum([i \in 1..Len(of) |-> 0 - of[i].amount])

\* C17: once the forecaster of a run ran, a category whose monthly totals (at
\* least 2) all equal v has a horizon-1 forecast of v with lower bound 0.9 v
\* and upper bound 1.1 v.
C17_ConstantSeriesTenPercentBand ==
    \A r \in Runs :
        Forecasted(r) =>
            \A category \in Categories \ {None} :
                \A v \in {MonthlyTotal(category, month) : month \in MonthsOf(category)} :
                    (/\ Cardinality(MonthsOf(category)) >= 2
                     /\ \A month \in MonthsOf(category) : MonthlyTotal(category, month) = v)
                    => \E k \in 1..Len(mart_forecasts) :
                          /\ mart_forecasts[k].category_norm = category
                          /\ mart_forecasts[k].horizon = 1
                          /\ mart_forecasts[k].forecast_amount = v
                          /\ 10 * mart_forecasts[k].lower_bound = 9 * v
                          /\ 10 * mart_forecasts[k].upper_bound = 11 * v

(* ---- C18 --------------------------------------------------------- *)

\* the run has a result for the only row of file f
OneRow(r, f) ==
    /\ Processed(r, f)
    /\ StatusOf(r, f) # "extract_error"
    /\ Len(data_dir[f].rows) = 1

\* what the raw amounts are worth, in cents
RawCents ==
    (Str(<<"1", "0", "0", ".", "5", "0">>) :> 10050) @@ (Str(<<"$", "1", ",", "0", "0", "0", ".", "0", "0">>) :> 100000) @@ (Num(-50250) :> -5025)
    @@ (Str(<<"-", "$", "4", "5", ".", "0", "0">>) :> -4500) @@ (Str(<<"1", "9", ".", "9", "9">>) :> 1999) @@ (Str(<<"-", "5", ".", "0", "0">>) :> -500)
    @@ (Str(<<"1", ",", "0", "1", "2", ".", "3", "4", "6">>) :> 101235) @@ (Num(7500) :> 750)

\* the exports of the institution whose positive raw amounts are charges
FlagOn(f) == f = AmexCsv

\* C18: the amount extracted from a row of a Chase export or of an export
\* read by the generic extractor has the value and sign of the raw amount; the
\* amount extracted from a row of an American Express export is -x for a
\* positive raw amount x.
C18_SignFollowsCreditFlag ==
    \A r \in Runs : \A f \in Files :
        (OneRow(r, f) /\ data_dir[f].rows[1].amount \in DOMAIN RawCents)
        => LET x == RawCents[data_dir[f].rows[1].amount]
               extracted == job[r].results[f].extracted IN
           /\ Len(extracted) = 1
           /\ ~FlagOn(f) => extracted[1].amount = x
           /\ (FlagOn(f) /\ x > 0) => extracted[1].amount = 0 - x
           /\ HasDf(r, f) => DfOf(r, f)[1].amount = extracted[1].amount

\* a positive raw amount was loaded from an American Express export
C18_PositiveAmountExtracted ==
    \E r \in Runs, f \in Files :
        /\ StatusOf(r, f) = "loaded"
        /\ Len(data_dir[f].rows) = 1
        /\ data_dir[f].rows[1].amount = Str(<<"1", "9", ".", "9", "9">>)
        /\ FlagOn(f)
        /\ raw_transactions[1].amount = -1999

(* ---- C19 --------------------------------------------------------- *)

\* the symbols, abbreviations and codes among the raw currencies, with their
\* ISO codes
IsoCodes ==
    (Str(<<"$">>) :> "USD") @@ (Str(<<"u", "s", "d">>) :> "USD") @@ (Str(<<"U", "S">>) :> "USD")
    @@ (Str(<<" ", "d", "o", "l", "l", "a", "r", " ">>) :> "USD") @@ (Str(<<"E", "u", "r", "o">>) :> "EUR") @@ (Str(<<"e", "u">>) :> "EUR")
    @@ (Str(<<"P", "o", "u", "n", "d">>) :> "GBP") @@ (Str(<<"U", "K">>) :> "GBP") @@ (Str(<<"E", "U", "R">>) :> "EUR")
    @@ (Str(<<"c", "a", "d">>) :> "CAD")

\* C19: every row that extraction keeps becomes a record, and its currency is
\* the ISO code of a recognized raw currency and "USD" when the raw currency
\* is missing or unrecognized or the file has no currency column.
C19_CurrencyIsIsoCodeOrUSD ==
    \A r \in Runs : \A f \in Files :
        (OneRow(r, f) /\ Len(job[r].results[f].extracted) = 1)
        => LET currency == data_dir[f].rows[1].currency IN
           /\ HasDf(r, f)
           /\ Len(DfOf(r, f)) = 1
           /\ DfOf(r, f)[1].currency =
                  IF ~Lacks(f, "currency") /\ currency \in DOMAIN IsoCodes
                  THEN IsoCodes[currency] ELSE "USD"

(* ---- C20 --------------------------------------------------------- *)

\* the first of pos, ecom, ach, zelle, atm with a keyword in the description,
\* for the descriptions of the drawn rows
Channels ==
    (Str(<<"P", "O", "S", " ", "1">>) :> "pos") @@ (Str(<<"P", "O", "S", " ", "t", "r", "a", "n", "s", "a", "c", "t", "i", "o", "n">>) :> "pos")
    @@ (Str(<<"O", "n", "l", "i", "n", "e", " ", "p", "u", "r", "c", "h", "a", "s", "e">>) :> "ecom") @@ (Str(<<"A", "C", "H", " ", "t", "r", "a", "n", "s", "f", "e", "r">>) :> "ach")
    @@ (Str(<<"Z", "e", "l", "l", "e", " ", "p", "a", "y", "m", "e", "n", "t">>) :> "zelle") @@ (Str(<<"U", "n", "k", "n", "o", "w", "n">>) :> "unknown")
    @@ (Str(<<>>) :> "unknown") @@ (NA :> "unknown") @@ (Str(<<"A", "T", "M", " ", "w", "i", "t", "h", "d", "r", "a", "w", "a", "l">>) :> "atm")
    @@ (Str(<<"D", "E", "B", "I", "T", " ", "c", "a", "r", "d">>) :> "pos") @@ (Str(<<"o", "n", "l", "i", "n", "e", " ", "t", "r", "a", "n", "s", "f", "e", "r">>) :> "ecom")
    @@ (Str(<<"w", "e", "b", " ", "p", "o", "s">>) :> "pos") @@ (Str(<<"w", "i", "r", "e", " ", "v", "i", "a", " ", "p", "a", "y", "p", "a", "l">>) :> "ach")
    @@ (Str(<<"v", "e", "n", "m", "o", " ", "a", "t", "m">>) :> "zelle") @@ (Str(<<"a", "t", "m", " ", "z", "e", "l", "l", "e", " ", "a", "c", "h">>) :> "ach")
    @@ (Str(<<"D", "e", "p", "o", "s", "i", "t">>) :> "pos") @@ (Str(<<"r", "e", "n", "t">>) :> "unknown")

\* C20: the channel of the record of a row that extraction keeps is the first
\* of pos, ecom, ach, zelle, atm one of whose keywords occurs in the
\* description of the row, unknown when none occurs or the description is
\* empty, and the channel of every stored record is one of the six.
C20_ChannelIsFirstMatch ==
    /\ \A r \in Runs : \A f \in Files :
          (/\ OneRow(r, f) /\ HasDf(r, f)
           /\ Len(job[r].results[f].extracted) = 1
           /\ data_dir[f].rows[1].description \in DOMAIN Channels)
          => /\ Len(DfOf(r, f)) = 1
             /\ DfOf(r, f)[1].channel = Channels[data_dir[f].rows[1].description]
    /\ \A i \in 1..Len(raw_transactions) :
          raw_transactions[i].channel \in {"pos", "ecom", "ach", "zelle", "atm", "unknown"}

\* a row whose description holds a keyword of zelle and one of atm was loaded
C20_TwoKeywordsLoaded ==
    \E r \in Runs, f \in Files :
        /\ StatusOf(r, f) = "loaded"
        /\ data_dir[f].rows = <<[RowIso EXCEPT !.description = Str(<<"v", "e", "n", "m", "o", " ", "a", "t", "m">>)]>>
        /\ Len(raw_transactions) = 1
        /\ raw_transactions[1].channel = "zelle"

(* ---- C21 --------------------------------------------------------- *)

\* C21: no record that transform returns or the store holds has an empty
\* merchant, an empty description or an amount of zero.
C21_NoEmptyMerchantDescriptionOrZero ==
    /\ \A r \in Runs : \A f \in Files :
          HasDf(r, f) => \A i \in 1..Len(DfOf(r, f)) :
              /\ DfOf(r, f)[i].merchant_raw # ""
              /\ DfOf(r, f)[i].description # ""
              /\ DfOf(r, f)[i].amount # 0
    /\ \A i \in 1..Len(raw_transactions) :
          /\ raw_transactions[i].merchant_raw # ""
          /\ raw_transactions[i].description # ""
          /\ raw_transactions[i].amount # 0

(* ---- C22 --------------------------------------------------------- *)

\* the total of the earliest month of the category's history
FirstValue(category) ==
    MonthlyTotal(category, CHOOSE m \in MonthsOf(category) : \A o \in MonthsOf(category) : m <= o)

\* the total of the latest month of the category's history
LastValue(category) ==
    MonthlyTotal(category, CHOOSE m \in MonthsOf(category) : \A o \in MonthsOf(category) : m >= o)

\* C22: once the forecaster of a run ran, every category with count >= 2
\* monthly totals has for each horizon h in 1..3 a forecast record whose
\* amount is max(0, last_value + h * (last_value - first_value) / (count - 1)).
C22_ForecastIsLinearTrend ==
    \A r \in Runs :
        Forecasted(r) =>
            \A category \in Categories \ {None} : \A h \in 1..3 :
                LET count == Cardinality(MonthsOf(category)) IN
                count >= 2 =>
                    LET estimate == (count - 1) * LastValue(category)
                                    + h * (LastValue(category) - FirstValue(category)) IN
                    \E k \in 1..Len(mart_forecasts) :
                        /\ mart_forecasts[k].category_norm = category
                        /\ mart_forecasts[k].horizon = h
                        /\ (count - 1) * mart_forecasts[k].forecast_amount
                               = (IF estimate < 0 THEN 0 ELSE estimate)

(* ---- C23 --------------------------------------------------------- *)

\* the runs whose task has ended in the state
Ended(task, state) == {r \in Runs : task_state[r][task] \in state}

\* the anomaly records of the pair
RecordsOf(txn_id, anomaly_type) ==
    SelectSeq(mart_anomalies, LAMBDA a : a.txn_id = txn_id /\ a.anomaly_type = anomaly_type)

\* every flagged pair has one anomaly record for each run of the detector
AnomaliesOncePerRun ==
    \A k \in 1..Len(mart_anomalies) :
        Len(RecordsOf(mart_anomalies[k].txn_id, mart_anomalies[k].anomaly_type))
            = Cardinality(Ended(Detect, {"success"}))

\* every category with a history has one forecast record per horizon for
\* each run of the forecaster
ForecastsOncePerRun ==
    \A category \in Categories \ {None} : \A h \in 1..3 :
        Cardinality(MonthsOf(category)) >= 2
        => Len(ForecastsOf(category, h)) = Cardinality(Ended("run_forecasts", {"success", "failed"}))

\* C23: the runs of the pipeline read the same transactions, and after n of
\* them the store holds n anomaly records for every pair of transaction
\* identity and anomaly type the detector flags, and n forecast records for
\* every category with a history and every horizon (n = 2: each twice).
C23_RerunsAppendAgain == AnomaliesOncePerRun /\ ForecastsOncePerRun

(* ---- C24 --------------------------------------------------------- *)

\* C24: no two anomaly records of the store carry the same id.
C24_AnomalyIdsNeverReused ==
    \A i, j \in 1..Len(mart_anomalies) : mart_anomalies[i].id = mart_anomalies[j].id => i = j

(* ---- C25 --------------------------------------------------------- *)

\* C25: an acknowledgement requested while the store holds none of the ids a
\* client asks for is answered with 404 and leaves the anomaly records as
\* they were.
C25_UnknownAnomalyIsNotFound ==
    [][(/\ response'.endpoint = "acknowledge"
        /\ \A k \in 1..Len(mart_anomalies) : mart_anomalies[k].id \notin RequestIds)
       => /\ response'.status_code = 404
          /\ mart_anomalies' = mart_anomalies]_vars

(* ---- C27 --------------------------------------------------------- *)

C29_CreditInstitutionAmountsNegative ==
    /\ \A r \in Runs : \A f \in Files :
          (Processed(r, f) /\ ExtractorFor(f).is_credit)
          => /\ \A i \in 1..Len(job[r].results[f].extracted) : job[r].results[f].extracted[i].amount < 0
             /\ \A i \in 1..Len(DfOf(r, f)) : DfOf(r, f)[i].amount < 0
    /\ \A i \in 1..Len(raw_transactions) :
          raw_transactions[i].institution = create_amex_extractor.institution
          => raw_transactions[i].amount < 0

\* a negative raw amount was loaded from an American Express export as it is
C29_RefundKeptNegative ==
    \E r \in Runs, f \in Files :
        /\ StatusOf(r, f) = "loaded"
        /\ ExtractorFor(f).is_credit
        /\ data_dir[f].rows = <<[RowIso EXCEPT !.amount = Str(<<"-", "5", ".", "0", "0">>)]>>
        /\ Len(raw_transactions) = 1
        /\ raw_transactions[1].amount = -500

(* ---- C30 --------------------------------------------------------- *)

\* the four identity fields of an extracted row
IdentityFields(row) == <<row.posted_at, row.amount, row.merchant_raw, row.description>>

\* C30: two rows extracted from one file that differ in posted_at, amount,
\* merchant_raw or description become records with different identities, and
\* the store holds both.
C30_DistinctRowsDistinctIdentities ==
    \A r \in Runs : \A f \in Files :
        StatusOf(r, f) = "loaded" =>
            LET extracted == job[r].results[f].extracted IN
            \A i, j \in 1..Len(extracted) :
                IdentityFields(extracted[i]) # IdentityFields(extracted[j])
                => /\ DfOf(r, f)[i].txn_id # DfOf(r, f)[j].txn_id
                   /\ \E k, l \in 1..Len(raw_transactions) :
                         /\ k # l
                         /\ raw_transactions[k].txn_id = DfOf(r, f)[i].txn_id
                         /\ raw_transactions[l].txn_id = DfOf(r, f)[j].txn_id

====
